---- MODULE Spec2Model ----
(***************************************************************************)
(* Model of analisis.py: the sales report pipeline                         *)
(*   cargar_csv -> calcular_metricas -> graficar_ventas_por_mes            *)
(*              -> graficar_top5_productos -> exportar_informe             *)
(*                                                                         *)
(* Text (header names, cells) is a sequence of one-character strings, so   *)
(* that normalisation and parsing are computed character by character.     *)
(* A float is a record [k, v]: k = "fin" with v the value in tenths,       *)
(* k = "nan", or k = "inf" with v the sign.  Prices and revenues are       *)
(* therefore exact; binary rounding of float sums is not modelled.         *)
(***************************************************************************)
EXTENDS Integers, Sequences, FiniteSets, TLC

VARIABLES
    file,       \* ventas.csv on disk: [exists, header, rows]
    pc,         \* position of main(): the next call, or how the run ended
    df,         \* the table returned by cargar_csv
    m,          \* the bundle returned by calcular_metricas
    written,    \* output files written so far, in order: [name, content]
    console,    \* diagnostics printed by the loader and save confirmations
    exit_code,  \* process exit status, -1 while running
    calls       \* the functions main() has called so far, in order

vars == <<file, pc, df, m, written, console, exit_code, calls>>

-----------------------------------------------------------------------------
(* Bound of the model *)

MaxRows == 2

-----------------------------------------------------------------------------
(* Characters and text *)

UpperSeq == <<"A","B","C","D","E","F","G","H","I","J","K","L","M",
              "N","O","P","Q","R","S","T","U","V","W","X","Y","Z">>
LowerSeq == <<"a","b","c","d","e","f","g","h","i","j","k","l","m",
              "n","o","p","q","r","s","t","u","v","w","x","y","z">>
DigitSeq == <<"0","1","2","3","4","5","6","7","8","9">>

Range(s) == {s[i] : i \in DOMAIN s}

Whitespace == {" ", "\t"}

\* Python's \w for the characters of the model: letters, digits, underscore
WordChars == Range(UpperSeq) \cup Range(LowerSeq) \cup Range(DigitSeq) \cup {"_"}

IsDigit(c) == c \in Range(DigitSeq)

DigitVal(c) == (CHOOSE i \in DOMAIN DigitSeq : DigitSeq[i] = c) - 1

LowerChar(c) ==
    IF c \in Range(UpperSeq)
    THEN LowerSeq[CHOOSE i \in DOMAIN UpperSeq : UpperSeq[i] = c]
    ELSE c

\* str.strip(): drop leading and trailing whitespace
RECURSIVE LStrip(_)
LStrip(s) ==
    IF s # <<>> /\ Head(s) \in Whitespace THEN LStrip(Tail(s)) ELSE s

RECURSIVE RStrip(_)
RStrip(s) ==
    IF s # <<>> /\ s[Len(s)] \in Whitespace
    THEN RStrip(SubSeq(s, 1, Len(s) - 1))
    ELSE s

StrStrip(s) == RStrip(LStrip(s))

\* str.lower()
StrLower(s) == [i \in DOMAIN s |-> LowerChar(s[i])]

SpaceToUnderscore(c) == IF c = " " THEN "_" ELSE c

\* str.replace(" ", "_")
StrReplaceSpace(s) == [i \in DOMAIN s |-> SpaceToUnderscore(s[i])]

IsWordChar(c) == c \in WordChars

\* str.replace(r"[^\w_]", "", regex=True)
StrStripNonWord(s) == SelectSeq(s, IsWordChar)

\* The chain applied to df.columns
NormalizarColumna(s) ==
    StrStripNonWord(StrReplaceSpace(StrLower(StrStrip(s))))

NormalizarColumnas(cols) == [i \in DOMAIN cols |-> NormalizarColumna(cols[i])]

FECHA    == <<"f","e","c","h","a">>
PRODUCTO == <<"p","r","o","d","u","c","t","o">>
CANTIDAD == <<"c","a","n","t","i","d","a","d">>
PRECIO   == <<"p","r","e","c","i","o">>

requeridas == {FECHA, PRODUCTO, CANTIDAD, PRECIO}

faltantes(cols) == requeridas \ Range(cols)

-----------------------------------------------------------------------------
(* Cells as pandas reads them *)

\* Cells read_csv turns into a missing value (a subset of its defaults)
NaValues == {<<>>, <<"N","A">>, <<"N","a","N">>}

IsNA(cell) == cell \in NaValues

NaN == [k |-> "nan", v |-> 0]
Fin(v) == [k |-> "fin", v |-> v]
Inf(sign) == [k |-> "inf", v |-> sign]

AllDigits(s) == \A i \in DOMAIN s : IsDigit(s[i])

RECURSIVE DigitsVal(_)
DigitsVal(s) ==
    IF s = <<>> THEN 0
    ELSE 10 * DigitsVal(SubSeq(s, 1, Len(s) - 1)) + DigitVal(s[Len(s)])

\* Position of the decimal point, 0 when there is none
DotPos(s) ==
    IF \E i \in DOMAIN s : s[i] = "."
    THEN CHOOSE i \in DOMAIN s : s[i] = "." /\ \A j \in 1..(i - 1) : s[j] # "."
    ELSE 0

\* An unsigned decimal literal with at most one fractional digit
IsUnsignedDecimal(s) ==
    LET d == DotPos(s) IN
    IF d = 0 THEN s # <<>> /\ AllDigits(s)
    ELSE /\ d > 1
         /\ AllDigits(SubSeq(s, 1, d - 1))
         /\ Len(s) - d <= 1
         /\ AllDigits(SubSeq(s, d + 1, Len(s)))

\* Its value in tenths
UnsignedDecimalVal(s) ==
    LET d == DotPos(s) IN
    IF d = 0 THEN 10 * DigitsVal(s)
    ELSE 10 * DigitsVal(SubSeq(s, 1, d - 1)) + DigitsVal(SubSeq(s, d + 1, Len(s)))

HasSign(s) == s # <<>> /\ Head(s) \in {"+", "-"}
SignOf(s) == IF s # <<>> /\ Head(s) = "-" THEN -1 ELSE 1
Unsigned(s) == IF HasSign(s) THEN Tail(s) ELSE s

INF_TEXT == <<"i","n","f">>

\* pd.to_numeric(..., errors="coerce") on one cell
ToNumeric(cell) ==
    IF IsNA(cell) THEN NaN
    ELSE IF StrLower(Unsigned(cell)) = INF_TEXT THEN Inf(SignOf(cell))
    ELSE IF IsUnsignedDecimal(Unsigned(cell))
         THEN Fin(SignOf(cell) * UnsignedDecimalVal(Unsigned(cell)))
    ELSE NaN

\* .fillna(0)
FillNa0(x) == IF x.k = "nan" THEN Fin(0) ELSE x

\* .astype(int) raises IntCastingNaNError on a non-finite value
AstypeIntRaises(x) == x.k # "fin"

\* .astype(int) on a finite float: truncation toward zero
AstypeInt(x) == IF x.v >= 0 THEN x.v \div 10 ELSE -((-x.v) \div 10)

\* df["cantidad"] = pd.to_numeric(df["cantidad"], errors="coerce").fillna(0).astype(int)
CoerceCantidad(cell) == AstypeInt(FillNa0(ToNumeric(cell)))

CantidadRaises(cell) == AstypeIntRaises(FillNa0(ToNumeric(cell)))

\* df["precio"] = pd.to_numeric(df["precio"], errors="coerce")
CoercePrecio(cell) == ToNumeric(cell)

\* Calendar
IsLeap(y) == (y % 4 = 0 /\ y % 100 # 0) \/ y % 400 = 0

DaysInMonth(y, mo) ==
    IF mo = 2 THEN (IF IsLeap(y) THEN 29 ELSE 28)
    ELSE IF mo \in {4, 6, 9, 11} THEN 30 ELSE 31

NaT == [nat |-> TRUE, y |-> 0, mo |-> 0, d |-> 0]

\* An ISO date YYYY-MM-DD naming a day of the calendar
IsIsoDate(s) ==
    /\ Len(s) = 10
    /\ s[5] = "-" /\ s[8] = "-"
    /\ AllDigits(SubSeq(s, 1, 4)) /\ AllDigits(SubSeq(s, 6, 7))
    /\ AllDigits(SubSeq(s, 9, 10))
    /\ DigitsVal(SubSeq(s, 6, 7)) \in 1..12
    /\ DigitsVal(SubSeq(s, 9, 10)) \in
          1..DaysInMonth(DigitsVal(SubSeq(s, 1, 4)), DigitsVal(SubSeq(s, 6, 7)))

\* parse_dates on one cell: missing gives NaT
ParseDate(cell) ==
    IF IsNA(cell) THEN NaT
    ELSE [nat |-> FALSE,
          y |-> DigitsVal(SubSeq(cell, 1, 4)),
          mo |-> DigitsVal(SubSeq(cell, 6, 7)),
          d |-> DigitsVal(SubSeq(cell, 9, 10))]

DateParseable(cell) == IsNA(cell) \/ IsIsoDate(cell)

\* Product label: a missing cell is NaN, anything else is the text
ProductoDe(cell) ==
    IF IsNA(cell) THEN [na |-> TRUE, s |-> <<>>] ELSE [na |-> FALSE, s |-> cell]

-----------------------------------------------------------------------------
(* cargar_csv *)

\* Positions of the columns called name
ColIdx(cols, name) == {i \in DOMAIN cols : cols[i] = name}

\* df[name] is a single column only when one column bears the name
Duplicada(cols, name) == Cardinality(ColIdx(cols, name)) > 1

Col(cols, name) == CHOOSE i \in ColIdx(cols, name) : \A j \in ColIdx(cols, name) : i <= j

\* pd.read_csv(csv_path, parse_dates=["fecha"]) raises: EmptyDataError on a
\* file without header line, ValueError when no column is called "fecha"
\* in the file as written (the names are normalised only afterwards)
ReadCsvRaises(f) == f.header = <<>> \/ FECHA \notin Range(f.header)

\* parse_dates converts the column only if every cell parses; otherwise the
\* column keeps its strings (dtype object)
FechaDtype(f) ==
    IF \A i \in DOMAIN f.rows : DateParseable(f.rows[i][Col(f.header, FECHA)])
    THEN "datetime64" ELSE "object"

\* Lines 46-47 raise: TypeError when df["cantidad"] or df["precio"] is not a
\* single column, IntCastingNaNError when a quantity is not finite
CoercionRaises(cols, rows) ==
    \/ Duplicada(cols, CANTIDAD)
    \/ Duplicada(cols, PRECIO)
    \/ \E i \in DOMAIN rows : CantidadRaises(rows[i][Col(cols, CANTIDAD)])

LoadedRow(f, cols, dtype, r) ==
    [fecha    |-> IF dtype = "datetime64" THEN ParseDate(r[Col(f.header, FECHA)])
                  ELSE r[Col(f.header, FECHA)],
     producto |-> ProductoDe(r[Col(cols, PRODUCTO)]),
     cantidad |-> CoerceCantidad(r[Col(cols, CANTIDAD)]),
     precio   |-> CoercePrecio(r[Col(cols, PRECIO)])]

\* The table cargar_csv returns
LoadedTable(f) ==
    LET cols  == NormalizarColumnas(f.header)
        dtype == FechaDtype(f)
    IN [columns     |-> cols,
        fecha_dtype |-> dtype,
        rows        |-> [i \in DOMAIN f.rows |-> LoadedRow(f, cols, dtype, f.rows[i])]]

NoTable == [columns |-> <<>>, fecha_dtype |-> "none", rows |-> <<>>]

\* How cargar_csv ends on file f
CargarResultado(f) ==
    IF ~f.exists THEN "no_encuentro"
    ELSE IF ReadCsvRaises(f) THEN "error_leyendo"
    ELSE IF faltantes(NormalizarColumnas(f.header)) # {} THEN "faltan_columnas"
    ELSE IF CoercionRaises(NormalizarColumnas(f.header), f.rows) THEN "excepcion"
    ELSE "ok"

-----------------------------------------------------------------------------
(* calcular_metricas *)

Sign(n) == IF n > 0 THEN 1 ELSE IF n < 0 THEN -1 ELSE 0

\* df["ingreso"] = df["cantidad"] * df["precio"]  (int * float)
Ingreso(cantidad, precio) ==
    IF precio.k = "fin" THEN Fin(cantidad * precio.v)
    ELSE IF precio.k = "nan" \/ cantidad = 0 THEN NaN
    ELSE Inf(Sign(cantidad) * precio.v)

ConIngreso(rows) ==
    [i \in DOMAIN rows |->
        [fecha    |-> rows[i].fecha,
         producto |-> rows[i].producto,
         cantidad |-> rows[i].cantidad,
         precio   |-> rows[i].precio,
         ingreso  |-> Ingreso(rows[i].cantidad, rows[i].precio)]]

\* Float addition
FloatAdd(a, b) ==
    IF a.k = "nan" \/ b.k = "nan" THEN NaN
    ELSE IF a.k = "fin" /\ b.k = "fin" THEN Fin(a.v + b.v)
    ELSE IF a.k = "fin" THEN b
    ELSE IF b.k = "fin" THEN a
    ELSE IF a.v = b.v THEN a ELSE NaN

\* A sum that lets a missing value through
SumStep_SinSkipna(acc, x) == FloatAdd(acc, x)

\* One step of .sum(): skipna=True leaves the missing values out
SumStep(acc, x) == IF x.k = "nan" THEN acc ELSE FloatAdd(acc, x)

\* .sum() of the float column `ingreso` over the rows at positions idx (in
\* order); min_count=0, so an empty or all-missing group sums to 0.0
RECURSIVE SumIngreso(_, _)
SumIngreso(rows, idx) ==
    IF idx = <<>> THEN Fin(0)
    ELSE SumStep(SumIngreso(rows, SubSeq(idx, 1, Len(idx) - 1)),
                 rows[idx[Len(idx)]].ingreso)

\* .sum() of the int column `cantidad`
RECURSIVE SumCantidad(_, _)
SumCantidad(rows, idx) ==
    IF idx = <<>> THEN 0
    ELSE SumCantidad(rows, SubSeq(idx, 1, Len(idx) - 1)) + rows[idx[Len(idx)]].cantidad

\* Timestamps compare by calendar order
Ordinal(t) == (t.y * 12 + (t.mo - 1)) * 31 + (t.d - 1)

\* Month number of a timestamp
MonthNo(t) == t.y * 12 + (t.mo - 1)

\* Label of a monthly bin: the "ME" offset labels it with the month's last day
MonthEnd(n) ==
    [nat |-> FALSE, y |-> n \div 12, mo |-> (n % 12) + 1,
     d |-> DaysInMonth(n \div 12, (n % 12) + 1)]

\* The row positions S in table order
RECURSIVE Ascending(_)
Ascending(S) ==
    IF S = {} THEN <<>>
    ELSE LET last == CHOOSE a \in S : \A b \in S : a >= b
         IN Append(Ascending(S \ {last}), last)

\* Positions of the rows that have a date
Dated(rows) == {i \in DOMAIN rows : ~rows[i].fecha.nat}

\* Positions of the rows dated in month n
InMonth(rows, n) == {i \in Dated(rows) : MonthNo(rows[i].fecha) = n}

\* Monthly totals of the months that have rows only
Resample_SinHuecos(rows) ==
    LET months == {MonthNo(rows[i].fecha) : i \in Dated(rows)}
        Rank(n) == Cardinality({k \in months : k <= n})
    IN [i \in 1..Cardinality(months) |->
          LET n == CHOOSE k \in months : Rank(k) = i
          IN [index |-> MonthEnd(n),
              value |-> SumIngreso(rows, Ascending(InMonth(rows, n)))]]

\* resample("ME")["ingreso"].sum(): the rows with a date fall into the bin of
\* their calendar month; the bins run from the month of the first date to the
\* month of the last, every month between included; rows without a date
\* (NaT) belong to no bin
Resample(rows) ==
    LET months == {MonthNo(rows[i].fecha) : i \in Dated(rows)}
        first  == CHOOSE a \in months : \A b \in months : a <= b
        last   == CHOOSE a \in months : \A b \in months : a >= b
    IN [i \in 1..(last - first + 1) |->
          [index |-> MonthEnd(first + i - 1),
           value |-> SumIngreso(rows, Ascending(InMonth(rows, first + i - 1)))]]

\* resample raises: TypeError unless the index is a DatetimeIndex (the fecha
\* column kept dtype object, or several columns are called fecha), and the
\* bin range cannot be built when no row has a date
ResampleRaises(t) ==
    \/ Duplicada(t.columns, FECHA)
    \/ t.fecha_dtype # "datetime64"
    \/ \A i \in DOMAIN t.rows : t.rows[i].fecha.nat

\* Code points order the characters
AsciiSeq == <<"\t", " ", "!", "(", ")", "+", "-", ".">> \o DigitSeq \o UpperSeq
            \o <<"_">> \o LowerSeq

CharCode(c) == CHOOSE i \in DOMAIN AsciiSeq : AsciiSeq[i] = c

RECURSIVE StrLess(_, _)
StrLess(a, b) ==
    IF b = <<>> THEN FALSE
    ELSE IF a = <<>> THEN TRUE
    ELSE IF Head(a) = Head(b) THEN StrLess(Tail(a), Tail(b))
    ELSE CharCode(Head(a)) < CharCode(Head(b))

\* The distinct keys in ascending order
RECURSIVE SortedKeys(_)
SortedKeys(keys) ==
    IF keys = {} THEN <<>>
    ELSE LET least == CHOOSE a \in keys : \A b \in keys \ {a} : StrLess(a, b)
         IN <<least>> \o SortedKeys(keys \ {least})

\* groupby("producto"): one group per distinct label, keys sorted; the rows
\* whose label is missing are in no group (dropna=True)
GroupKeys(rows) ==
    SortedKeys({rows[i].producto.s : i \in {j \in DOMAIN rows : ~rows[j].producto.na}})

GroupRows(rows, key) ==
    Ascending({i \in DOMAIN rows : ~rows[i].producto.na /\ rows[i].producto.s = key})

\* df.groupby("producto")["cantidad"].sum()
GroupCantidad(rows) ==
    LET keys == GroupKeys(rows)
    IN [i \in DOMAIN keys |->
          [index |-> keys[i], value |-> SumCantidad(rows, GroupRows(rows, keys[i]))]]

\* df.groupby("producto")["ingreso"].sum()
GroupIngreso(rows) ==
    LET keys == GroupKeys(rows)
    IN [i \in DOMAIN keys |->
          [index |-> keys[i], value |-> SumIngreso(rows, GroupRows(rows, keys[i]))]]

\* groupby raises ValueError when several columns are called producto
GroupByRaises(t) == Duplicada(t.columns, PRODUCTO)

\* Order of floats; a missing value sorts last whatever the direction
FloatGE(a, b) ==
    IF b.k = "nan" THEN TRUE
    ELSE IF a.k = "nan" THEN FALSE
    ELSE IF a.k = "inf" THEN a.v = 1 \/ (b.k = "inf" /\ b.v = -1)
    ELSE IF b.k = "inf" THEN b.v = -1
    ELSE a.v >= b.v

Ordenes(n) ==
    {p \in [1..n -> 1..n] : \A i, j \in 1..n : i # j => p[i] # p[j]}

\* The values of a series, as floats
FloatValues(series) == [i \in DOMAIN series |-> series[i].value]
IntValues(series) == [i \in DOMAIN series |-> Fin(10 * series[i].value)]

\* sort_values(ascending=False) orders the entries by value; the default
\* sort (quicksort) is not stable, so entries of equal value may come out
\* in any order
SortValuesDesc(series, vals) ==
    {[i \in DOMAIN series |-> series[p[i]]] :
        p \in {q \in Ordenes(Len(series)) :
                  \A i \in 1..(Len(series) - 1) : FloatGE(vals[q[i]], vals[q[i + 1]])}}

\* The grouped quantities left in the order of the groups
CantPorProducto_SinOrdenar(rows) == {GroupCantidad(rows)}

\* df.groupby("producto")["cantidad"].sum().sort_values(ascending=False)
CantPorProducto(rows) ==
    SortValuesDesc(GroupCantidad(rows), IntValues(GroupCantidad(rows)))

\* df.groupby("producto")["ingreso"].sum().sort_values(ascending=False)
IngresosPorProducto(rows) ==
    SortValuesDesc(GroupIngreso(rows), FloatValues(GroupIngreso(rows)))

\* Position idxmax() / max() report: the first of the values no other
\* value exceeds, missing values skipped; 0 when every value is missing
ArgMaxPos(vals) ==
    IF \A i \in DOMAIN vals : vals[i].k = "nan" THEN 0
    ELSE CHOOSE i \in DOMAIN vals :
        /\ vals[i].k # "nan"
        /\ \A j \in DOMAIN vals : vals[j].k # "nan" => FloatGE(vals[i], vals[j])
        /\ \A j \in 1..(i - 1) : ~(vals[j].k # "nan" /\ FloatGE(vals[j], vals[i]))

\* The last of the entries holding the maximum
IdxMaxCantidad_Ultimo(series) ==
    series[CHOOSE i \in DOMAIN series :
              /\ \A j \in DOMAIN series : series[i].value >= series[j].value
              /\ \A j \in (i + 1)..Len(series) : series[j].value < series[i].value].index

\* cant_por_producto.idxmax()
IdxMaxCantidad(series) == series[ArgMaxPos(IntValues(series))].index

\* int(cant_por_producto.max())
MaxCantidad(series) == series[ArgMaxPos(IntValues(series))].value

\* ingresos_por_producto.idxmax()
IdxMaxIngresos(series) ==
    IF ArgMaxPos(FloatValues(series)) = 0 THEN <<"nan">>
    ELSE series[ArgMaxPos(FloatValues(series))].index

\* float(ingresos_por_producto.max())
MaxIngresos(series) ==
    IF ArgMaxPos(FloatValues(series)) = 0 THEN NaN
    ELSE series[ArgMaxPos(FloatValues(series))].value

\* idxmax() raises ValueError on an empty series
IdxMaxRaises(series) == series = <<>>

CalcularRaises(t) ==
    \/ ResampleRaises(t)
    \/ GroupByRaises(t)
    \/ IdxMaxRaises(GroupKeys(t.rows))

NoMetrics ==
    [df |-> <<>>, ventas_mensuales |-> <<>>, cant_por_producto |-> <<>>,
     ingresos_por_producto |-> <<>>, producto_mas_vendido |-> <<>>,
     cantidad_max |-> 0, producto_top_ingresos |-> <<>>, ingresos_max |-> Fin(0)]

\* The bundles calcular_metricas may return on table t
Metricas(t) ==
    LET rows == ConIngreso(t.rows)
    IN {[df                    |-> rows,
         ventas_mensuales      |-> Resample(rows),
         cant_por_producto     |-> c,
         ingresos_por_producto |-> g,
         producto_mas_vendido  |-> IdxMaxCantidad(c),
         cantidad_max          |-> MaxCantidad(c),
         producto_top_ingresos |-> IdxMaxIngresos(g),
         ingresos_max          |-> MaxIngresos(g)] :
        c \in CantPorProducto(rows),
        g \in IngresosPorProducto(rows)}

-----------------------------------------------------------------------------
(* graficar_ventas_por_mes, graficar_top5_productos, exportar_informe *)

\* Decimal digits of n, zero padded to width w
RECURSIVE Digits(_, _)
Digits(n, w) ==
    IF w = 0 THEN <<>> ELSE Append(Digits(n \div 10, w - 1), DigitSeq[(n % 10) + 1])

\* strftime("%Y-%m")
StrftimeYm(t) == Digits(t.y, 4) \o <<"-">> \o Digits(t.mo, 2)

\* vm.index = vm.index.strftime("%Y-%m"); vm.plot(kind="bar"): one bar per
\* entry, in the order of the series
BarrasPorMes(ventas_mensuales) ==
    [i \in DOMAIN ventas_mensuales |->
        [index |-> StrftimeYm(ventas_mensuales[i].index),
         value |-> ventas_mensuales[i].value]]

TopN == 5

Min(a, b) == IF a <= b THEN a ELSE b

\* ingresos_por_producto.head(5)
Top5(ingresos_por_producto) ==
    SubSeq(ingresos_por_producto, 1, Min(TopN, Len(ingresos_por_producto)))

\* The sections exportar_informe writes, in order; to_string() prints one
\* line per entry of a series, in the order of the series
Informe(b) ==
    [ventas_por_mes |-> b.ventas_mensuales,
     por_cantidad   |-> b.cant_por_producto,
     top_cantidad   |-> [producto |-> b.producto_mas_vendido, valor |-> b.cantidad_max],
     por_ingresos   |-> b.ingresos_por_producto,
     top_ingresos   |-> [producto |-> b.producto_top_ingresos, valor |-> b.ingresos_max],
     graficos       |-> <<"ventas_por_mes.png", "ventas_top5_productos.png">>]

-----------------------------------------------------------------------------
(* main *)

\* The report written before the charts it lists
MainCalls_InformeAntes ==
    <<"cargar_csv", "calcular_metricas", "exportar_informe",
      "graficar_ventas_por_mes", "graficar_top5_productos">>

\* The calls of main(), in program order
MainCalls ==
    <<"cargar_csv", "calcular_metricas", "graficar_ventas_por_mes",
      "graficar_top5_productos", "exportar_informe">>

\* Where main() stands after the call `stage` has returned
Siguiente(stage) ==
    LET i == CHOOSE k \in DOMAIN MainCalls : MainCalls[k] = stage
    IN IF i = Len(MainCalls) THEN "done" ELSE MainCalls[i + 1]

\* The process exits with status 0 when main() returns
ExitAfter(stage) == IF Siguiente(stage) = "done" THEN 0 ELSE exit_code

\* sys.exit(1) on the diagnosed conditions (lines 20, 27, 43)
DespuesDeCargar_SinExit(res) ==
    IF res = "excepcion" THEN "crashed" ELSE Siguiente("cargar_csv")

\* Where the run stands when cargar_csv ends with result res: sys.exit(1)
\* on the three diagnosed conditions, an uncaught exception, or back in main()
DespuesDeCargar(res) ==
    IF res = "ok" THEN Siguiente("cargar_csv")
    ELSE IF res = "excepcion" THEN "crashed" ELSE "exited"

\* cargar_csv(CSV_PATH): the three sys.exit(1) paths, an exception raised
\* by the coercions, or the table
CargarCsv ==
    /\ pc = "cargar_csv"
    /\ calls' = Append(calls, "cargar_csv")
    /\ LET res == CargarResultado(file) IN
       /\ m' = m /\ written' = written /\ file' = file
       /\ pc' = DespuesDeCargar(res)
       /\ IF res = "ok"
          THEN /\ df' = LoadedTable(file)
               /\ exit_code' = ExitAfter("cargar_csv")
               /\ console' = console
          ELSE /\ df' = df
               /\ exit_code' = 1
               /\ console' = Append(console,
                     [msg |-> res,
                      detail |-> IF res = "faltan_columnas"
                                 THEN faltantes(NormalizarColumnas(file.header))
                                 ELSE {}])

\* m = calcular_metricas(df); an exception it raises ends the run
CalcularMetricas ==
    /\ pc = "calcular_metricas"
    /\ calls' = Append(calls, "calcular_metricas")
    /\ UNCHANGED <<file, df, written>>
    /\ IF CalcularRaises(df)
       THEN /\ pc' = "crashed"
            /\ exit_code' = 1
            /\ console' = Append(console, [msg |-> "excepcion", detail |-> {}])
            /\ m' = m
       ELSE /\ \E b \in Metricas(df) : m' = b
            /\ pc' = Siguiente("calcular_metricas")
            /\ exit_code' = ExitAfter("calcular_metricas")
            /\ console' = console

\* graficar_ventas_por_mes(m["ventas_mensuales"], "ventas_por_mes.png")
GraficarVentasPorMes ==
    /\ pc = "graficar_ventas_por_mes"
    /\ calls' = Append(calls, "graficar_ventas_por_mes")
    /\ written' = Append(written,
          [name |-> "ventas_por_mes.png", content |-> BarrasPorMes(m.ventas_mensuales)])
    /\ console' = Append(console, [msg |-> "grafico_guardado", detail |-> {"ventas_por_mes.png"}])
    /\ pc' = Siguiente("graficar_ventas_por_mes")
    /\ exit_code' = ExitAfter("graficar_ventas_por_mes")
    /\ UNCHANGED <<file, df, m>>

\* graficar_top5_productos(m["ingresos_por_producto"], "ventas_top5_productos.png")
GraficarTop5Productos ==
    /\ pc = "graficar_top5_productos"
    /\ calls' = Append(calls, "graficar_top5_productos")
    /\ written' = Append(written,
          [name |-> "ventas_top5_productos.png", content |-> Top5(m.ingresos_por_producto)])
    /\ console' = Append(console, [msg |-> "grafico_guardado", detail |-> {"ventas_top5_productos.png"}])
    /\ pc' = Siguiente("graficar_top5_productos")
    /\ exit_code' = ExitAfter("graficar_top5_productos")
    /\ UNCHANGED <<file, df, m>>

\* exportar_informe(..., "informe.txt"); main() then returns and the
\* process exits with status 0
ExportarInforme ==
    /\ pc = "exportar_informe"
    /\ calls' = Append(calls, "exportar_informe")
    /\ written' = Append(written, [name |-> "informe.txt", content |-> Informe(m)])
    /\ console' = Append(console, [msg |-> "informe_guardado", detail |-> {"informe.txt"}])
    /\ pc' = Siguiente("exportar_informe")
    /\ exit_code' = ExitAfter("exportar_informe")
    /\ UNCHANGED <<file, df, m>>

-----------------------------------------------------------------------------
(* Input files *)

D_2023_12_15 == <<"2","0","2","3","-","1","2","-","1","5">>
D_2024_02_01 == <<"2","0","2","4","-","0","2","-","0","1">>
EMPTY == <<>>

\* Header names as written in the file, per column
FechaHeaders    == {FECHA, <<"F","e","c","h","a">>, <<" ","f","e","c","h","a">>}
ProductoHeaders == {PRODUCTO, <<"P","R","O","D","U","C","T","O">>}
CantidadHeaders == {CANTIDAD, <<" ","C","a","n","t","i","d","a","d"," ">>}
PrecioHeaders   == {PRECIO, <<"P","r","e","c","i","o","!">>, <<"p","r","i","c","e">>, <<"p","r","e"," ","c","i","o">>}
ExtraHeaders    == {<<"P","r","e","c","i","o">>, <<"n","o","t","a","s">>}

\* Header lines: the four columns under some spelling, the price column
\* possibly absent, possibly one more column
Headers ==
    {<<f, p, c>> \o pr \o ex :
        f \in FechaHeaders, p \in ProductoHeaders, c \in CantidadHeaders,
        pr \in {<<>>} \cup {<<x>> : x \in PrecioHeaders},
        ex \in {<<>>} \cup {<<x>> : x \in ExtraHeaders}}

\* A plain data row of n cells
PlainRow(n) ==
    [i \in 1..n |-> IF i = 1 THEN D_2024_02_01
                    ELSE IF i = 2 THEN <<"A">>
                    ELSE IF i = 3 THEN <<"2">> ELSE <<"1","0">>]

\* Files that differ in their header line, holding no row or one plain row
HeaderFiles ==
    UNION {{[exists |-> TRUE, header |-> h, rows |-> r] :
               r \in {<<>>} \cup (IF h = <<>> THEN {} ELSE {<<PlainRow(Len(h))>>})} :
           h \in Headers \cup {<<>>}}

\* Rows of the aggregation cases: two months with a month between them, a
\* missing date, two products, a negative quantity, a missing price
AggRows ==
    {<<f, p, c, pr>> :
        f \in {D_2023_12_15, D_2024_02_01, EMPTY},
        p \in {<<"A">>, <<"B">>},
        c \in {<<"2">>, <<"-","1">>},
        pr \in {<<"1","0">>, EMPTY}}

\* Rows without a product label
UnlabelledRows ==
    {<<f, EMPTY, <<"2">>, <<"1","0">>>> : f \in {D_2023_12_15, D_2024_02_01}}

\* Rows of the coercion cases: fractional, textual, missing and infinite
\* quantity, textual price, textual date
CoercionRows ==
    {<<D_2023_12_15, <<"A">>, c, <<"1","0">>>> :
        c \in {<<"2",".","5">>, <<"a","b","c">>, EMPTY, INF_TEXT}}
    \cup {<<D_2023_12_15, <<"A">>, <<"2">>, <<"x">>>>,
          <<<<"a","b","c">>, <<"A">>, <<"2">>, <<"1","0">>>>}

RawRows == AggRows \cup UnlabelledRows \cup CoercionRows

RECURSIVE Tables(_)
Tables(n) ==
    IF n = 0 THEN {<<>>}
    ELSE Tables(n - 1) \cup
         {Append(t, r) : t \in {u \in Tables(n - 1) : Len(u) = n - 1}, r \in RawRows}

\* Files with the plain header line and up to MaxRows rows
RowFiles ==
    {[exists |-> TRUE, header |-> <<FECHA, PRODUCTO, CANTIDAD, PRECIO>>, rows |-> t] :
        t \in Tables(MaxRows)}

NoFile == [exists |-> FALSE, header |-> <<>>, rows |-> <<>>]

InputFiles == {NoFile} \cup HeaderFiles \cup RowFiles

Init ==
    /\ file \in InputFiles
    /\ pc = "cargar_csv"
    /\ df = NoTable
    /\ m = NoMetrics
    /\ written = <<>>
    /\ console = <<>>
    /\ exit_code = -1
    /\ calls = <<>>

Next ==
    \/ CargarCsv
    \/ CalcularMetricas
    \/ GraficarVentasPorMes
    \/ GraficarTop5Productos
    \/ ExportarInforme

Spec == Init /\ [][Next]_vars

-----------------------------------------------------------------------------
(* Properties *)

WrittenNames == [i \in DOMAIN written |-> written[i].name]

IsPrefix(a, b) == Len(a) <= Len(b) /\ a = SubSeq(b, 1, Len(a))

\* The normalised header names include the four required names
NombresCompletos(f) == requeridas \subseteq Range(NormalizarColumnas(f.header))

\* Each required name is borne by exactly one column
NombresUnicos(f) ==
    \A n \in requeridas : Cardinality(ColIdx(NormalizarColumnas(f.header), n)) = 1

\* The input makes cargar_csv hit one of its fatal conditions
FatalInput(f) == ~f.exists \/ ReadCsvRaises(f) \/ ~NombresCompletos(f)

LoaderReturned == pc \notin {"cargar_csv", "exited", "crashed"} \/
                  (pc = "crashed" /\ Len(calls) > 1)

\* C1: on an input that is absent, unreadable or lacks a required column
\* after normalisation, the run ends inside cargar_csv with exit code 1 and
\* none of the three output files has been written.
C1_FatalLoadExitsWithoutOutputs ==
    FatalInput(file) =>
        /\ written = <<>>
        /\ \/ pc = "cargar_csv"
           \/ pc = "exited" /\ exit_code = 1 /\ calls = <<"cargar_csv">>

\* A file with rows and no price column has been rejected
C1_Witness ==
    /\ pc = "exited" /\ exit_code = 1
    /\ file.exists /\ file.rows # <<>>
    /\ FECHA \in Range(file.header)
    /\ faltantes(NormalizarColumnas(file.header)) = {PRECIO}

\* C2 (as claimed): an existing, non-empty file is rejected with exit 1
\* exactly when its normalised column names are not a superset of the
\* required names; headers that differ from them by case, surrounding
\* whitespace or punctuation only are accepted and loaded.
C2_RejectedIffNormalizedNamesMissing ==
    (pc # "cargar_csv" /\ file.exists /\ file.header # <<>>)
    => ((pc = "exited") <=> ~NombresCompletos(file))

\* C5 (as claimed): after a successful cargar_csv every cantidad is an
\* integer >= 0, whatever the raw cell held.
C5_CantidadNonNegative ==
    LoaderReturned => \A i \in DOMAIN df.rows : df.rows[i].cantidad \in Nat

\* C6 (as claimed): for a file that passes the column check, whatever the
\* quantity cells hold, cargar_csv returns a table with as many rows as the
\* file, in the same order, each non-numeric or missing quantity being 0.
C6_CoercionNeverAbortsNorDrops ==
    (pc # "cargar_csv" /\ ~FatalInput(file) /\ NombresUnicos(file))
    => /\ LoaderReturned
       /\ Len(df.rows) = Len(file.rows)
       /\ \A i \in DOMAIN file.rows :
             LET f == file.rows[i] IN
             /\ df.rows[i].producto = ProductoDe(f[Col(NormalizarColumnas(file.header), PRODUCTO)])
             /\ ToNumeric(f[Col(NormalizarColumnas(file.header), CANTIDAD)]).k = "nan"
                   => df.rows[i].cantidad = 0

\* C9: the stages run at most once each, in the order load, aggregate,
\* monthly chart, top-5 chart, report; a successful run runs all five, the
\* report is written after both charts, and nothing is written before the
\* aggregation has completed.
C9_StagesOnceInOrder ==
    LET order == <<"cargar_csv", "calcular_metricas", "graficar_ventas_por_mes",
                   "graficar_top5_productos", "exportar_informe">>
    IN /\ IsPrefix(calls, order)
       /\ pc = "done" => calls = order /\ exit_code = 0
       /\ IsPrefix(WrittenNames,
                   <<"ventas_por_mes.png", "ventas_top5_productos.png", "informe.txt">>)
       /\ written # <<>> => (Len(calls) > 2 /\ m # NoMetrics)
       /\ Len(written) = (IF Len(calls) > 2 THEN Len(calls) - 2 ELSE 0)

\* A successful run has written the three files
C9_Witness ==
    pc = "done" /\ Len(written) = 3 /\ written[3].name = "informe.txt"

\* calcular_metricas has returned its bundle
Aggregated == m # NoMetrics

\* Sum of the integers v[i], i in S
RECURSIVE SumSet(_, _)
SumSet(v, S) ==
    IF S = {} THEN 0
    ELSE LET x == CHOOSE y \in S : TRUE IN v[x] + SumSet(v, S \ {x})

\* Rows of the table whose revenue is a number
Defined(S) == {i \in S : m.df[i].ingreso.k = "fin"}

\* Sum of the revenue column over the rows S, missing values left out
RevenueOf(S) == SumSet([i \in DOMAIN m.df |-> m.df[i].ingreso.v], Defined(S))

QuantityOf(S) == SumSet([i \in DOMAIN m.df |-> m.df[i].cantidad], S)

\* Sum of the values of a series of numbers
SeriesTotal(series) ==
    SumSet([i \in DOMAIN series |-> series[i].value.v], DOMAIN series)

RowsOfMonth(n) == {i \in DOMAIN m.df : ~m.df[i].fecha.nat /\ MonthNo(m.df[i].fecha) = n}

RowsOfProduct(p) == {i \in DOMAIN m.df : ~m.df[i].producto.na /\ m.df[i].producto.s = p}

Products == {m.df[i].producto.s : i \in {j \in DOMAIN m.df : ~m.df[j].producto.na}}

\* The entries of a series under a given index
Entries(series, key) == {i \in DOMAIN series : series[i].index = key}

\* C3 (as claimed): the values of the monthly revenue series add up to the
\* sum of the per-row revenue column over the whole table, also when rows
\* lack a price or a date.
C3_MonthlyTotalEqualsTableTotal ==
    Aggregated =>
        /\ \A i \in DOMAIN m.ventas_mensuales : m.ventas_mensuales[i].value.k = "fin"
        /\ SeriesTotal(m.ventas_mensuales) = RevenueOf(DOMAIN m.df)

\* C4 (as claimed): a row without a usable price has an undefined revenue,
\* and the monthly total of its month and the revenue total of its product
\* are undefined too.
C4_NaNPoisonsSums ==
    Aggregated =>
        \A i \in DOMAIN m.df :
            m.df[i].precio.k = "nan" =>
                /\ m.df[i].ingreso.k = "nan"
                /\ ~m.df[i].fecha.nat =>
                      \A e \in Entries(m.ventas_mensuales, MonthEnd(MonthNo(m.df[i].fecha))) :
                          m.ventas_mensuales[e].value.k = "nan"
                /\ ~m.df[i].producto.na =>
                      \A e \in Entries(m.ingresos_por_producto, m.df[i].producto.s) :
                          m.ingresos_por_producto[e].value.k = "nan"

\* C4 (amended): a row without a usable price has an undefined revenue, and
\* the sums leave it out: the monthly total of its month and the revenue
\* total of its product are numbers, equal to the sum of the defined
\* revenues of the rows of that month, resp. product (0 when there is none).
C4_NaNRevenueSkippedBySums ==
    Aggregated =>
        \A i \in DOMAIN m.df :
            m.df[i].precio.k = "nan" =>
                /\ m.df[i].ingreso.k = "nan"
                /\ ~m.df[i].fecha.nat =>
                      /\ Entries(m.ventas_mensuales, MonthEnd(MonthNo(m.df[i].fecha))) # {}
                      /\ \A e \in Entries(m.ventas_mensuales, MonthEnd(MonthNo(m.df[i].fecha))) :
                            m.ventas_mensuales[e].value =
                               Fin(RevenueOf(RowsOfMonth(MonthNo(m.df[i].fecha))))
                /\ ~m.df[i].producto.na =>
                      /\ Entries(m.ingresos_por_producto, m.df[i].producto.s) # {}
                      /\ \A e \in Entries(m.ingresos_por_producto, m.df[i].producto.s) :
                            m.ingresos_por_producto[e].value =
                               Fin(RevenueOf(RowsOfProduct(m.df[i].producto.s)))

\* A priced row and an unpriced row of the same month and product
C4_Witness ==
    /\ Aggregated
    /\ \E i, j \in DOMAIN m.df :
          /\ m.df[i].precio.k = "nan" /\ m.df[i].cantidad # 0
          /\ m.df[j].ingreso.k = "fin" /\ m.df[j].ingreso.v # 0
          /\ ~m.df[i].fecha.nat /\ m.df[j].fecha = m.df[i].fecha
          /\ ~m.df[i].producto.na /\ m.df[j].producto = m.df[i].producto

\* C7: each ranking has exactly one entry per distinct product, valued the
\* sum of the product's quantity (resp. revenue, missing values left out)
\* over its rows, and each value is >= the value that follows it.
C7_RankingsPerProductSortedDesc ==
    Aggregated =>
        /\ \A p \in Products :
              /\ Cardinality(Entries(m.cant_por_producto, p)) = 1
              /\ Cardinality(Entries(m.ingresos_por_producto, p)) = 1
        /\ Len(m.cant_por_producto) = Cardinality(Products)
        /\ Len(m.ingresos_por_producto) = Cardinality(Products)
        /\ \A i \in DOMAIN m.cant_por_producto :
              m.cant_por_producto[i].value =
                 QuantityOf(RowsOfProduct(m.cant_por_producto[i].index))
        /\ \A i \in DOMAIN m.ingresos_por_producto :
              m.ingresos_por_producto[i].value =
                 Fin(RevenueOf(RowsOfProduct(m.ingresos_por_producto[i].index)))
        /\ \A i \in 1..(Len(m.cant_por_producto) - 1) :
              m.cant_por_producto[i].value >= m.cant_por_producto[i + 1].value
        /\ \A i \in 1..(Len(m.ingresos_por_producto) - 1) :
              m.ingresos_por_producto[i].value.v >= m.ingresos_por_producto[i + 1].value.v

\* Two products whose order by value is the reverse of their order by name
C7_Witness ==
    /\ Aggregated
    /\ Len(m.cant_por_producto) = 2
    /\ StrLess(m.cant_por_producto[2].index, m.cant_por_producto[1].index)
    /\ m.cant_por_producto[1].value > m.cant_por_producto[2].value
    /\ StrLess(m.ingresos_por_producto[2].index, m.ingresos_por_producto[1].index)
    /\ m.ingresos_por_producto[1].value.v > m.ingresos_por_producto[2].value.v

ReportOf == written[CHOOSE i \in DOMAIN written : written[i].name = "informe.txt"].content
Top5ChartOf ==
    written[CHOOSE i \in DOMAIN written : written[i].name = "ventas_top5_productos.png"].content

\* C8: each reported top pair is the maximum of its ranking together with a
\* product whose summed value is that maximum; the product is the first
\* entry of the sorted ranking, so the TOP line of the report names the
\* product of the first line of the ranking above it and of the first bar of
\* the top-5 chart, ties included.
C8_TopIsMaxAndFirstOfRanking ==
    Aggregated =>
        /\ \A i \in DOMAIN m.cant_por_producto :
              m.cantidad_max >= m.cant_por_producto[i].value
        /\ \A i \in DOMAIN m.ingresos_por_producto :
              m.ingresos_max.v >= m.ingresos_por_producto[i].value.v
        /\ QuantityOf(RowsOfProduct(m.producto_mas_vendido)) = m.cantidad_max
        /\ Fin(RevenueOf(RowsOfProduct(m.producto_top_ingresos))) = m.ingresos_max
        /\ m.producto_mas_vendido = m.cant_por_producto[1].index
        /\ m.producto_top_ingresos = m.ingresos_por_producto[1].index
        /\ pc \in {"exportar_informe", "done"} =>
              Top5ChartOf[1].index = m.producto_top_ingresos
        /\ pc = "done" =>
              /\ ReportOf.top_cantidad.producto = ReportOf.por_cantidad[1].index
              /\ ReportOf.top_cantidad.valor = ReportOf.por_cantidad[1].value
              /\ ReportOf.top_ingresos.producto = ReportOf.por_ingresos[1].index
              /\ ReportOf.top_ingresos.valor = ReportOf.por_ingresos[1].value
              /\ ReportOf.top_ingresos.producto = Top5ChartOf[1].index

\* A finished run in which two products tie for both maxima and the later
\* name comes first in both rankings
C8_Witness ==
    /\ pc = "done"
    /\ Len(m.cant_por_producto) = 2
    /\ m.cant_por_producto[1].value = m.cant_por_producto[2].value
    /\ m.ingresos_por_producto[1].value = m.ingresos_por_producto[2].value
    /\ StrLess(m.cant_por_producto[2].index, m.cant_por_producto[1].index)
    /\ StrLess(m.ingresos_por_producto[2].index, m.ingresos_por_producto[1].index)

AllDated == \A i \in DOMAIN m.df : ~m.df[i].fecha.nat

\* C10: on a non-empty table whose rows all have a date, the monthly series
\* has exactly one entry per calendar month from the month of the earliest
\* row to the month of the latest, in increasing order whatever the order of
\* the rows; each entry is the sum of the revenue of the rows of its month,
\* and a month without rows has value 0; the monthly chart shows the same
\* entries in the same order under YYYY-MM labels.
C10_MonthlySeriesCoversEveryMonth ==
    (Aggregated /\ AllDated) =>
        LET months == {MonthNo(m.df[i].fecha) : i \in DOMAIN m.df}
            vm     == m.ventas_mensuales
        IN /\ months # {}
           /\ \E lo, hi \in months :
                 /\ \A n \in months : lo <= n /\ n <= hi
                 /\ Len(vm) = hi - lo + 1
                 /\ \A i \in DOMAIN vm : MonthNo(vm[i].index) = lo + i - 1
           /\ \A i \in 1..(Len(vm) - 1) : Ordinal(vm[i].index) < Ordinal(vm[i + 1].index)
           /\ \A i \in DOMAIN vm :
                 /\ vm[i].index = MonthEnd(MonthNo(vm[i].index))
                 /\ vm[i].value = Fin(RevenueOf(RowsOfMonth(MonthNo(vm[i].index))))
                 /\ RowsOfMonth(MonthNo(vm[i].index)) = {} => vm[i].value = Fin(0)
           /\ written # <<>> =>
                 LET bars == written[1].content
                 IN /\ written[1].name = "ventas_por_mes.png"
                    /\ Len(bars) = Len(vm)
                    /\ \A i \in DOMAIN bars :
                          Len(bars[i].index) = 7 /\ bars[i].value = vm[i].value
                    /\ \A i \in 1..(Len(bars) - 1) :
                          StrLess(bars[i].index, bars[i + 1].index)

\* Rows given latest month first, with an empty month between them
C10_Witness ==
    /\ Aggregated /\ AllDated
    /\ Len(m.df) = 2
    /\ MonthNo(m.df[1].fecha) > MonthNo(m.df[2].fecha) + 1
    /\ m.df[1].ingreso.k = "fin" /\ m.df[1].ingreso.v # 0
    /\ Len(m.ventas_mensuales) = 3
    /\ m.ventas_mensuales[2].value = Fin(0)
    /\ written # <<>>

====
